---- MODULE Spec2Model ----
(***************************************************************************)
(* firefly-analyzer: reconciliation of cloud resources against IaC         *)
(* resources.  The model covers ResourceMatcher (matcher.py), DiffConverter *)
(* (diff_converter.py) with the structural diff it obtains from DeepDiff,   *)
(* and CloudIacAnalyzer (analyzer.py).                                      *)
(*                                                                         *)
(* JSON values are tagged records with the same four fields, so that any    *)
(* two values can be compared:                                              *)
(*   kind  - Python's type name: "str", "int", "NoneType", "list", "dict"   *)
(*   text  - the characters of a str, the decimal digits of an int          *)
(*   keys  - the keys of a dict, in insertion order, each a character seq   *)
(*   items - the values of a dict (aligned with keys) or the elements of a  *)
(*           list                                                           *)
(* Text is a sequence of one-character strings, so that the string          *)
(* operations of the code (startswith, replace, iteration over characters)  *)
(* are computed and not assumed.                                            *)
(***************************************************************************)
EXTENDS Naturals, Sequences, FiniteSets, TLC

VARIABLES
  cloud_resources,   \* the cloud resources handed to the operation
  iac_resources,     \* the IaC pool handed to the operation
  pc,                \* position of the running operation
  analysis_results,  \* analyze's local list of AnalysisItems
  summary,           \* the summary of the returned report (NoSummary before)
  heap,              \* the list objects created so far (ChangeLog lists)
  change_log,        \* DiffConverter.change_log: a reference into heap
  matching_iac,      \* what find_matching_iac_resource returned (0 is None)
  matcher_locals,    \* the locals of the last find_matching_iac_resource call
  returned,          \* the list convert_diff_to_changelog returned (0: none)
  args,              \* the arguments of a function that is called alone
  result             \* what that function returned

vars == <<cloud_resources, iac_resources, pc, analysis_results, summary,
          heap, change_log, matching_iac, matcher_locals, returned,
          args, result>>

\* the variables of the functions that are called alone
call_vars == <<args, result>>

(***************************************************************************)
(* Bounds of the model.                                                    *)
(***************************************************************************)
MaxPool == 2    \* longest IaC pool handed to find_matching_iac_resource alone
MaxCloud == 2   \* longest cloud resource list handed to analyze
MaxIac == 2     \* longest IaC pool handed to analyze

(***************************************************************************)
(* Values.                                                                 *)
(***************************************************************************)
Value(k, t, ks, is) == [kind |-> k, text |-> t, keys |-> ks, items |-> is]
Str(t) == Value("str", t, <<>>, <<>>)
Int(t) == Value("int", t, <<>>, <<>>)
None == Value("NoneType", <<"N", "o", "n", "e">>, <<>>, <<>>)
List(is) == Value("list", <<>>, <<>>, is)
\* a key that a resource under construction does not have
Absent == Value("absent", <<>>, <<>>, <<>>)

\* no function is called alone
NoCall ==
  /\ args = <<>>
  /\ result = <<>>

Present(pairs) == SelectSeq(pairs, LAMBDA p : p[2].kind # "absent")
\* a dict from <<key, value>> pairs, keeping insertion order; Absent values
\* stand for keys that are left out
Dict(pairs) ==
  LET ps == Present(pairs)
  IN  Value("dict", <<>>, [i \in 1..Len(ps) |-> ps[i][1]],
            [i \in 1..Len(ps) |-> ps[i][2]])

\* Python truth value of a JSON value (if x:, not x, x or y)
Truthy(v) ==
  CASE v.kind = "NoneType" -> FALSE
    [] v.kind = "str" -> v.text # <<>>
    [] v.kind = "int" -> v.text # <<"0">>
    [] v.kind = "list" -> v.items # <<>>
    [] v.kind = "dict" -> v.keys # <<>>
    [] OTHER -> FALSE

\* Python == on the kinds of the model (str, int, None, list, dict): same
\* kind and same content; ints hold canonical decimal digits
PyEq(a, b) == a = b

\* key in d
Has(d, k) == \E i \in 1..Len(d.keys) : d.keys[i] = k
\* d[key]
Item(d, k) == d.items[CHOOSE i \in 1..Len(d.keys) : d.keys[i] = k]
\* d.get(key)
Get(d, k) == IF Has(d, k) THEN Item(d, k) ELSE None
\* x or y
OrElse(x, y) == IF Truthy(x) THEN x ELSE y
\* v in list
InList(v, seq) == \E i \in 1..Len(seq) : PyEq(seq[i], v)

s_id == <<"i", "d">>
s_resource_id == <<"r", "e", "s", "o", "u", "r", "c", "e", "_", "i", "d">>
s_arn == <<"a", "r", "n">>
s_type == <<"t", "y", "p", "e">>
s_resourceType == <<"r", "e", "s", "o", "u", "r", "c", "e", "T", "y", "p", "e">>
s_name == <<"n", "a", "m", "e">>
s_region == <<"r", "e", "g", "i", "o", "n">>

(***************************************************************************)
(* ResourceMatcher (matcher.py).  A match is returned as the index of the  *)
(* candidate in the pool (the object itself in Python); 0 is None.          *)
(***************************************************************************)
\* "for candidate in pool: if hit: return candidate" ... "return None"
LastIndex(S) == IF S = {} THEN 0 ELSE CHOOSE i \in S : \A j \in S : j <= i
FirstIndex(S) == IF S = {} THEN 0 ELSE CHOOSE i \in S : \A j \in S : i <= j

cloud_id_fields == <<s_id, s_resource_id, s_arn>>

\* cloud_ids = [cloud.get(f) for f in cloud_id_fields if cloud.get(f)]
cloud_ids(cloud_resource) ==
  SelectSeq([i \in 1..Len(cloud_id_fields) |->
               Get(cloud_resource, cloud_id_fields[i])], Truthy)

\* field in iac_resource and iac_resource[field] in cloud_ids, for some field
PrimaryHit_same_field(cloud_resource, iac_resource) ==
  \E f \in 1..Len(cloud_id_fields) :
    /\ Has(iac_resource, cloud_id_fields[f])
    /\ Truthy(Get(cloud_resource, cloud_id_fields[f]))
    /\ PyEq(Item(iac_resource, cloud_id_fields[f]),
            Get(cloud_resource, cloud_id_fields[f]))
PrimaryHit(cloud_resource, iac_resource) ==
  \E f \in 1..Len(cloud_id_fields) :
    /\ Has(iac_resource, cloud_id_fields[f])
    /\ InList(Item(iac_resource, cloud_id_fields[f]), cloud_ids(cloud_resource))

_primary_match(cloud_resource, pool) ==
  FirstIndex({i \in 1..Len(pool) : PrimaryHit(cloud_resource, pool[i])})

SecondaryHit(cloud_resource, iac_resource) ==
  LET cloud_type == OrElse(Get(cloud_resource, s_type),
                           Get(cloud_resource, s_resourceType))
      cloud_name == Get(cloud_resource, s_name)
      iac_type == OrElse(Get(iac_resource, s_type),
                         Get(iac_resource, s_resourceType))
      iac_name == Get(iac_resource, s_name)
  IN  PyEq(iac_type, cloud_type) /\ PyEq(iac_name, cloud_name)

_secondary_match(cloud_resource, pool) ==
  LET cloud_type == OrElse(Get(cloud_resource, s_type),
                           Get(cloud_resource, s_resourceType))
      cloud_name == Get(cloud_resource, s_name)
  IN  IF ~Truthy(cloud_type) \/ ~Truthy(cloud_name)
      THEN 0
      ELSE FirstIndex({i \in 1..Len(pool) : SecondaryHit(cloud_resource, pool[i])})

NameRegionHit(cloud_resource, iac_resource) ==
  /\ PyEq(Get(iac_resource, s_name), Get(cloud_resource, s_name))
  /\ PyEq(Get(iac_resource, s_region), Get(cloud_resource, s_region))

NameHit(cloud_resource, iac_resource) ==
  PyEq(Get(iac_resource, s_name), Get(cloud_resource, s_name))

_tertiary_match_name_only(cloud_resource, pool) ==
  IF ~Truthy(Get(cloud_resource, s_name))
  THEN 0
  ELSE FirstIndex({i \in 1..Len(pool) : NameHit(cloud_resource, pool[i])})
_tertiary_match_unguarded(cloud_resource, pool) ==
  FirstIndex({i \in 1..Len(pool) : NameHit(cloud_resource, pool[i])})
_tertiary_match(cloud_resource, pool) ==
  LET cloud_name == Get(cloud_resource, s_name)
      cloud_region == Get(cloud_resource, s_region)
      with_region ==
        IF Truthy(cloud_region)
        THEN FirstIndex({i \in 1..Len(pool) : NameRegionHit(cloud_resource, pool[i])})
        ELSE 0
  IN  IF ~Truthy(cloud_name)
      THEN 0
      ELSE IF with_region # 0
           THEN with_region
           ELSE FirstIndex({i \in 1..Len(pool) : NameHit(cloud_resource, pool[i])})

\* "if primary_match:" tests the returned dict, which is None or a candidate
Found(pool, i) == i # 0 /\ Truthy(pool[i])

find_matching_iac_resource_secondary_first(cloud_resource, pool) ==
  LET primary_match == _primary_match(cloud_resource, pool)
      secondary_match == _secondary_match(cloud_resource, pool)
      tertiary_match == _tertiary_match(cloud_resource, pool)
  IN  IF Found(pool, secondary_match) THEN secondary_match
      ELSE IF Found(pool, primary_match) THEN primary_match
      ELSE IF Found(pool, tertiary_match) THEN tertiary_match
      ELSE 0
find_matching_iac_resource(cloud_resource, pool) ==
  LET primary_match == _primary_match(cloud_resource, pool)
      secondary_match == _secondary_match(cloud_resource, pool)
      tertiary_match == _tertiary_match(cloud_resource, pool)
  IN  IF Found(pool, primary_match) THEN primary_match
      ELSE IF Found(pool, secondary_match) THEN secondary_match
      ELSE IF Found(pool, tertiary_match) THEN tertiary_match
      ELSE 0

(***************************************************************************)
(* Text operations of Python used by the code, on character sequences.     *)
(***************************************************************************)
\* s.startswith(p), s.endswith(p)
StartsWith(s, p) == Len(s) >= Len(p) /\ SubSeq(s, 1, Len(p)) = p
EndsWith(s, p) == Len(s) >= Len(p) /\ SubSeq(s, Len(s) - Len(p) + 1, Len(s)) = p

\* s.replace(old, new): leftmost non-overlapping occurrences, left to right
RECURSIVE Replace(_, _, _)
Replace(s, old, new) ==
  IF Len(s) < Len(old) THEN s
  ELSE IF StartsWith(s, old)
       THEN new \o Replace(SubSeq(s, Len(old) + 1, Len(s)), old, new)
       ELSE <<s[1]>> \o Replace(SubSeq(s, 2, Len(s)), old, new)

DigitChars == <<"0", "1", "2", "3", "4", "5", "6", "7", "8", "9">>
\* str(n) for a list index; the lists of the model are shorter than ten
IndexText(n) == <<DigitChars[n + 1]>>

(***************************************************************************)
(* DeepDiff(t1, t2, ignore_order=True, exclude_paths=...) as the code uses *)
(* it (analyzer.py line 111, diff_converter.py lines 34-39): the text view  *)
(* of the library's result, one sequence per report type.                   *)
(*   values_changed, type_changes: [path, new_value, old_value]             *)
(*   dictionary_item_added, dictionary_item_removed: path                   *)
(*   iterable_item_added, iterable_item_removed: [path, item]               *)
(* A path is the library's string for a location: root, then ['key'] for a  *)
(* mapping key and [index] for a list position.  The keys of the model hold *)
(* no quote character (the library switches quoting for those).             *)
(* With ignore_order, list elements are compared as sets of hashed values:  *)
(* order and repetition are ignored, an element only in t2 is reported as   *)
(* added and one only in t1 as removed, each at the index of its first      *)
(* occurrence in its own list, and an addition and a removal at the same    *)
(* path are reported as one value change.  The library also pairs an added  *)
(* with a removed element when they are close (two numbers, two similar     *)
(* containers) and reports the pair's differences instead; the lists of the *)
(* model hold strings and at most one number or one nested list, which it   *)
(* never pairs.                                                             *)
(***************************************************************************)
EmptyDiff ==
  [values_changed |-> <<>>, dictionary_item_added |-> <<>>,
   dictionary_item_removed |-> <<>>, type_changes |-> <<>>,
   iterable_item_added |-> <<>>, iterable_item_removed |-> <<>>]

ConcatDiff(a, b) ==
  [values_changed |-> a.values_changed \o b.values_changed,
   dictionary_item_added |-> a.dictionary_item_added \o b.dictionary_item_added,
   dictionary_item_removed |->
     a.dictionary_item_removed \o b.dictionary_item_removed,
   type_changes |-> a.type_changes \o b.type_changes,
   iterable_item_added |-> a.iterable_item_added \o b.iterable_item_added,
   iterable_item_removed |-> a.iterable_item_removed \o b.iterable_item_removed]

\* "if not diff", "if diff"
DiffIsEmpty(d) == d = EmptyDiff

RootPath == <<"r", "o", "o", "t">>
KeyPath(path, key) == path \o <<"[", "'">> \o key \o <<"'", "]">>
IndexPath(path, n) == path \o <<"[">> \o IndexText(n) \o <<"]">>

Change(path, new, old) == [path |-> path, new_value |-> new, old_value |-> old]
ItemAt(path, item) == [path |-> path, item |-> item]

\* 0-based index of the first occurrence of element v in list items
FirstPos(items, v) ==
  (CHOOSE i \in 1..Len(items) :
     items[i] = v /\ \A j \in 1..(i - 1) : items[j] # v) - 1
\* the positions (1-based) of the first occurrences in a that are not in b
OnlyIn(a, b) ==
  SelectSeq([i \in 1..Len(a) |-> i],
            LAMBDA i : (\A j \in 1..(i - 1) : a[j] # a[i])
                       /\ (\A j \in 1..Len(b) : b[j] # a[i]))

\* a list level under ignore_order
DiffIterable(t1, t2, path) ==
  LET added == OnlyIn(t2.items, t1.items)
      removed == OnlyIn(t1.items, t2.items)
      mutual == SelectSeq(removed, LAMBDA i : \E k \in 1..Len(added) : added[k] = i)
      add_only == SelectSeq(added, LAMBDA i : \A k \in 1..Len(removed) : removed[k] # i)
      rem_only == SelectSeq(removed, LAMBDA i : \A k \in 1..Len(added) : added[k] # i)
  IN  [EmptyDiff EXCEPT
         !.values_changed =
           [k \in 1..Len(mutual) |->
              Change(IndexPath(path, mutual[k] - 1), t2.items[mutual[k]],
                     t1.items[mutual[k]])],
         !.iterable_item_added =
           [k \in 1..Len(add_only) |->
              ItemAt(IndexPath(path, add_only[k] - 1), t2.items[add_only[k]])],
         !.iterable_item_removed =
           [k \in 1..Len(rem_only) |->
              ItemAt(IndexPath(path, rem_only[k] - 1), t1.items[rem_only[k]])]]

RECURSIVE DiffLevel(_, _, _, _)
RECURSIVE DiffCommonKeys(_, _, _, _, _)

\* the keys both mappings hold, each compared one level deeper
DiffCommonKeys(t1, t2, path, exclude_paths, i) ==
  IF i > Len(t1.keys) THEN EmptyDiff
  ELSE LET key == t1.keys[i]
           here == IF Has(t2, key)
                   THEN DiffLevel(Item(t1, key), Item(t2, key),
                                  KeyPath(path, key), exclude_paths)
                   ELSE EmptyDiff
       IN  ConcatDiff(here, DiffCommonKeys(t1, t2, path, exclude_paths, i + 1))

\* a mapping level: keys only in t2 are added, keys only in t1 are removed,
\* excluded paths are not reported
DiffDict(t1, t2, path, exclude_paths) ==
  LET added == SelectSeq(t2.keys,
                 LAMBDA k : ~Has(t1, k) /\ KeyPath(path, k) \notin exclude_paths)
      removed == SelectSeq(t1.keys,
                   LAMBDA k : ~Has(t2, k) /\ KeyPath(path, k) \notin exclude_paths)
  IN  ConcatDiff(
        [EmptyDiff EXCEPT
           !.dictionary_item_added =
             [k \in 1..Len(added) |-> KeyPath(path, added[k])],
           !.dictionary_item_removed =
             [k \in 1..Len(removed) |-> KeyPath(path, removed[k])]],
        DiffCommonKeys(t1, t2, path, exclude_paths, 1))

DiffLevel_no_exclude(t1, t2, path, exclude_paths) ==
  IF t1.kind # t2.kind
  THEN [EmptyDiff EXCEPT !.type_changes = <<Change(path, t2, t1)>>]
  ELSE IF t1.kind = "dict" THEN DiffDict(t1, t2, path, {})
  ELSE IF t1.kind = "list" THEN DiffIterable(t1, t2, path)
  ELSE IF t1 = t2 THEN EmptyDiff
  ELSE [EmptyDiff EXCEPT !.values_changed = <<Change(path, t2, t1)>>]
DiffLevel(t1, t2, path, exclude_paths) ==
  IF path \in exclude_paths THEN EmptyDiff
  ELSE IF t1.kind # t2.kind
  THEN [EmptyDiff EXCEPT !.type_changes = <<Change(path, t2, t1)>>]
  ELSE IF t1.kind = "dict" THEN DiffDict(t1, t2, path, exclude_paths)
  ELSE IF t1.kind = "list" THEN DiffIterable(t1, t2, path)
  ELSE IF t1 = t2 THEN EmptyDiff
  ELSE [EmptyDiff EXCEPT !.values_changed = <<Change(path, t2, t1)>>]

DeepDiff(t1, t2, exclude_paths) == DiffLevel(t1, t2, RootPath, exclude_paths)

(***************************************************************************)
(* normalize_value (utils.py).  The strings of the model are made of ASCII *)
(* digits, the letters and punctuation of the inputs below, '.', and the    *)
(* character SUPERSCRIPT TWO (U+00B2), so float() accepts a string exactly  *)
(* when it is ASCII digits around one '.', with a digit somewhere.          *)
(***************************************************************************)
\* the one character U+00B2: str.isdigit() holds for it (Numeric_Type=Digit)
\* and int() does not accept it (it is not a decimal digit)
superscript_two == "SUPERSCRIPT TWO"
\* ch is a decimal digit that int() and float() accept
IsDecimalChar(ch) == \E i \in 1..Len(DigitChars) : DigitChars[i] = ch
\* ch.isdigit()
IsDigitChar(ch) == IsDecimalChar(ch) \/ ch = superscript_two
\* value.isdigit()
IsDigit(t) == t # <<>> /\ \A i \in 1..Len(t) : IsDigitChar(t[i])
\* int(value) succeeds, for a value that passed isdigit()
IntParses(t) == \A i \in 1..Len(t) : IsDecimalChar(t[i])
\* the exception int(value) raises otherwise, in place of a returned value
ValueError == Value("ValueError", <<>>, <<>>, <<>>)

RECURSIVE StripLeadingZeros(_)
StripLeadingZeros(t) ==
  IF Len(t) > 1 /\ t[1] = "0" THEN StripLeadingZeros(SubSeq(t, 2, Len(t))) ELSE t
RECURSIVE StripTrailingZeros(_)
StripTrailingZeros(t) ==
  IF Len(t) > 1 /\ t[Len(t)] = "0"
  THEN StripTrailingZeros(SubSeq(t, 1, Len(t) - 1)) ELSE t

DotPositions(t) == {i \in 1..Len(t) : t[i] = "."}
\* float(value) succeeds
ParsesAsFloat(t) ==
  /\ Cardinality(DotPositions(t)) = 1
  /\ Len(t) > 1
  /\ \A i \in 1..Len(t) : t[i] = "." \/ IsDecimalChar(t[i])
\* the text Python shows for float(value)
FloatText(t) ==
  LET d == CHOOSE i \in DotPositions(t) : TRUE
      whole == SubSeq(t, 1, d - 1)
      frac == SubSeq(t, d + 1, Len(t))
  IN  StripLeadingZeros(IF whole = <<>> THEN <<"0">> ELSE whole) \o <<".">>
        \o StripTrailingZeros(IF frac = <<>> THEN <<"0">> ELSE frac)

normalize_value_strip_one(value) ==
  IF value.kind = "str" /\ IsDigit(value.text) /\ Len(value.text) > 1
     /\ value.text[1] = "0"
  THEN Str(Tail(value.text))
  ELSE IF value.kind = "str"
  THEN IF IsDigit(value.text)
       THEN IF IntParses(value.text) THEN Int(StripLeadingZeros(value.text))
            ELSE ValueError
       ELSE IF ParsesAsFloat(value.text)
            THEN Value("float", FloatText(value.text), <<>>, <<>>)
            ELSE value
  ELSE value
normalize_value(value) ==
  IF value.kind = "str"
  THEN IF IsDigit(value.text)
       THEN IF IntParses(value.text) THEN Int(StripLeadingZeros(value.text))
            ELSE ValueError
       ELSE IF ParsesAsFloat(value.text)
            THEN Value("float", FloatText(value.text), <<>>, <<>>)
            ELSE value
  ELSE value

(***************************************************************************)
(* DiffConverter (diff_converter.py).                                      *)
(***************************************************************************)
\* str(v) and repr(v), for the f-string of _process_type_changes
RECURSIVE PyRepr(_)
RECURSIVE JoinRepr(_, _, _)
JoinRepr(v, i, with_keys) ==
  IF i > Len(v.items) THEN <<>>
  ELSE (IF i > 1 THEN <<",", " ">> ELSE <<>>)
       \o (IF with_keys THEN <<"'">> \o v.keys[i] \o <<"'", ":", " ">> ELSE <<>>)
       \o PyRepr(v.items[i])
       \o JoinRepr(v, i + 1, with_keys)
PyRepr(v) ==
  CASE v.kind = "str" -> <<"'">> \o v.text \o <<"'">>
    [] v.kind = "list" -> <<"[">> \o JoinRepr(v, 1, FALSE) \o <<"]">>
    [] v.kind = "dict" -> <<"{">> \o JoinRepr(v, 1, TRUE) \o <<"}">>
    [] OTHER -> v.text
PyStr(v) == IF v.kind = "str" THEN v.text ELSE PyRepr(v)

\* type(v).__name__
TypeName(v) ==
  CASE v.kind = "str" -> <<"s", "t", "r">>
    [] v.kind = "int" -> <<"i", "n", "t">>
    [] v.kind = "float" -> <<"f", "l", "o", "a", "t">>
    [] v.kind = "list" -> <<"l", "i", "s", "t">>
    [] v.kind = "dict" -> <<"d", "i", "c", "t">>
    [] OTHER -> <<"N", "o", "n", "e", "T", "y", "p", "e">>

_convert_path_to_key_name(path) ==
  LET p1 == IF StartsWith(path, <<"r", "o", "o", "t", "[", "'">>)
            THEN SubSeq(path, 7, Len(path)) ELSE path
      p2 == IF EndsWith(p1, <<"'", "]">>) THEN SubSeq(p1, 1, Len(p1) - 2) ELSE p1
      p3 == Replace(p2, <<"'", "]", "[", "'">>, <<".">>)
      p4 == Replace(p3, <<"]", "[">>, <<".">>)
  IN  Replace(Replace(Replace(p4, <<"'">>, <<>>), <<"[">>, <<>>), <<"]">>, <<>>)

Entry(key_name, cloud_value, iac_value) ==
  [KeyName |-> key_name, CloudValue |-> cloud_value, IacValue |-> iac_value]

ADDED == Str(<<"A", "D", "D", "E", "D">>)
REMOVED == Str(<<"R", "E", "M", "O", "V", "E", "D">>)

_process_values_changed_raw(values_changed) ==
  [k \in 1..Len(values_changed) |->
     Entry(_convert_path_to_key_name(values_changed[k].path),
           values_changed[k].new_value, values_changed[k].old_value)]
_process_values_changed(values_changed) ==
  [k \in 1..Len(values_changed) |->
     Entry(_convert_path_to_key_name(values_changed[k].path),
           normalize_value(values_changed[k].new_value),
           normalize_value(values_changed[k].old_value))]

_process_dictionary_item_added_as_removed(items_added) ==
  [k \in 1..Len(items_added) |->
     Entry(_convert_path_to_key_name(items_added[k]), None, REMOVED)]
_process_dictionary_item_added(items_added) ==
  [k \in 1..Len(items_added) |->
     Entry(_convert_path_to_key_name(items_added[k]), ADDED, None)]

_process_dictionary_item_removed(items_removed) ==
  [k \in 1..Len(items_removed) |->
     Entry(_convert_path_to_key_name(items_removed[k]), None, REMOVED)]

_process_type_changes_normalized(type_changes) ==
  [k \in 1..Len(type_changes) |->
     Entry(_convert_path_to_key_name(type_changes[k].path),
           Str(TypeName(normalize_value(type_changes[k].new_value)) \o <<":", " ">>
               \o PyStr(normalize_value(type_changes[k].new_value))),
           Str(TypeName(normalize_value(type_changes[k].old_value)) \o <<":", " ">>
               \o PyStr(normalize_value(type_changes[k].old_value))))]
_process_type_changes(type_changes) ==
  [k \in 1..Len(type_changes) |->
     Entry(_convert_path_to_key_name(type_changes[k].path),
           Str(TypeName(type_changes[k].new_value) \o <<":", " ">>
               \o PyStr(type_changes[k].new_value)),
           Str(TypeName(type_changes[k].old_value) \o <<":", " ">>
               \o PyStr(type_changes[k].old_value)))]

\* "for item in items" where items is the one element DeepDiff reports at the
\* path: a str yields its characters, a list its elements, a dict its keys;
\* any other value is not iterable and the loop raises TypeError
Iterable(v) == v.kind \in {"str", "list", "dict"}
Iterate(v) ==
  CASE v.kind = "str" -> [i \in 1..Len(v.text) |-> Str(<<v.text[i]>>)]
    [] v.kind = "list" -> v.items
    [] v.kind = "dict" -> [i \in 1..Len(v.keys) |-> Str(v.keys[i])]
    [] OTHER -> <<>>

\* the entries appended and whether the loop raised, from the k-th reported
\* element on; marker is [+] with the element as CloudValue, or [-] with it
\* as IacValue
ItemEntries(key_name, elems, added) ==
  [i \in 1..Len(elems) |->
     IF added THEN Entry(key_name, elems[i], None)
     ELSE Entry(key_name, None, elems[i])]
Prepend(entries, rest) ==
  [entries |-> entries \o rest.entries, raised |-> rest.raised]
RECURSIVE ProcessIterableItems(_, _, _)
ProcessIterableItems(reported, k, added) ==
  IF k > Len(reported) THEN [entries |-> <<>>, raised |-> FALSE]
  ELSE IF ~Iterable(reported[k].item) THEN [entries |-> <<>>, raised |-> TRUE]
  ELSE Prepend(
         ItemEntries(_convert_path_to_key_name(reported[k].path)
                       \o (IF added THEN <<"[", "+", "]">> ELSE <<"[", "-", "]">>),
                     Iterate(reported[k].item), added),
         ProcessIterableItems(reported, k + 1, added))

_process_iterable_item_added(items_added) ==
  ProcessIterableItems(items_added, 1, TRUE)
_process_iterable_item_removed(items_removed) ==
  ProcessIterableItems(items_removed, 1, FALSE)

\* lines 45-50: what is appended to self.change_log, in order, and whether a
\* step raised (the steps after it are not run)
InOrder(head, added, removed) ==
  IF added.raised
  THEN [entries |-> head \o added.entries, raised |-> TRUE]
  ELSE [entries |-> head \o added.entries \o removed.entries,
        raised |-> removed.raised]
\* the first value change whose normalization raises (0: none); the entries
\* before it are appended and the exception leaves the converter
ValueErrorAt(values_changed) ==
  FirstIndex({k \in 1..Len(values_changed) :
                \/ normalize_value(values_changed[k].new_value) = ValueError
                \/ normalize_value(values_changed[k].old_value) = ValueError})
ProcessDiff_types_first(diff) ==
  IF ValueErrorAt(diff.values_changed) # 0
  THEN [entries |-> _process_type_changes(diff.type_changes)
                      \o SubSeq(_process_values_changed(diff.values_changed), 1,
                                ValueErrorAt(diff.values_changed) - 1),
        raised |-> TRUE]
  ELSE InOrder(_process_type_changes(diff.type_changes)
                 \o _process_values_changed(diff.values_changed)
                 \o _process_dictionary_item_added(diff.dictionary_item_added)
                 \o _process_dictionary_item_removed(diff.dictionary_item_removed),
               _process_iterable_item_added(diff.iterable_item_added),
               _process_iterable_item_removed(diff.iterable_item_removed))
ProcessDiff(diff) ==
  IF ValueErrorAt(diff.values_changed) # 0
  THEN [entries |-> SubSeq(_process_values_changed(diff.values_changed), 1,
                           ValueErrorAt(diff.values_changed) - 1),
        raised |-> TRUE]
  ELSE InOrder(_process_values_changed(diff.values_changed)
                 \o _process_dictionary_item_added(diff.dictionary_item_added)
                 \o _process_dictionary_item_removed(diff.dictionary_item_removed)
                 \o _process_type_changes(diff.type_changes),
               _process_iterable_item_added(diff.iterable_item_added),
               _process_iterable_item_removed(diff.iterable_item_removed))

exclude_paths ==
  { KeyPath(RootPath, s_id), KeyPath(RootPath, s_resource_id),
    KeyPath(RootPath, s_arn) }

\* a new list object: the heap with it, and the reference to it
NewList(h) == [heap |-> Append(h, <<>>), ref |-> Len(h) + 1]

\* line 31, self.change_log = []: the attribute is bound to a new list
ClearChangeLog(h, cl) == [heap |-> [h EXCEPT ![cl] = <<>>], ref |-> cl]
KeepChangeLog(h, cl) == [heap |-> h, ref |-> cl]
ResetChangeLog(h, cl) == NewList(h)

\* convert_diff_to_changelog on the converter whose change_log is cl: the heap
\* after the call, the attribute after the call, the returned list (0 when the
\* call raised) and whether it raised
\* line 42, return []: a new empty list, not self.change_log
ReturnEmpty(reset) ==
  [heap |-> NewList(reset.heap).heap, change_log |-> reset.ref,
   returned |-> NewList(reset.heap).ref, raised |-> FALSE]
\* lines 45-52: the entries are appended to self.change_log, which is returned
ReturnChangeLog(reset, done) ==
  [heap |-> [reset.heap EXCEPT ![reset.ref] = @ \o done.entries],
   change_log |-> reset.ref,
   returned |-> IF done.raised THEN 0 ELSE reset.ref,
   raised |-> done.raised]
ConvertDiffResult(reset, diff) ==
  IF DiffIsEmpty(diff) THEN ReturnEmpty(reset)
  ELSE ReturnChangeLog(reset, ProcessDiff(diff))
convert_diff_to_changelog(h, cl, cloud_resource, iac_resource) ==
  ConvertDiffResult(ResetChangeLog(h, cl),
                    DeepDiff(iac_resource, cloud_resource, exclude_paths))

(***************************************************************************)
(* Inputs of the matcher specification: resources built from the fields    *)
(* the matcher reads.                                                      *)
(***************************************************************************)
v_i1 == Str(<<"i", "1">>)
v_t1 == Str(<<"t", "1">>)
v_n1 == Str(<<"n", "1">>)
v_r1 == Str(<<"r", "1">>)
v_r2 == Str(<<"r", "2">>)
v_empty == Str(<<>>)

MatchResource(id, arn, type, resourceType, name, region) ==
  Dict(<< <<s_id, id>>, <<s_arn, arn>>, <<s_type, type>>,
          <<s_resourceType, resourceType>>, <<s_name, name>>,
          <<s_region, region>> >>)

\* identity of a resource: none, a null id, an empty id, an id, an arn
IdentityChoices ==
  { <<Absent, Absent>>, <<None, Absent>>, <<v_empty, Absent>>,
    <<v_i1, Absent>>, <<Absent, v_i1>> }

MatchClouds ==
  { MatchResource(idc[1], idc[2], ty, Absent, nm, rg) :
      idc \in IdentityChoices \ { <<None, Absent>> },
      ty \in {Absent, v_t1}, nm \in {Absent, v_empty, v_n1},
      rg \in {Absent, v_r1} }

MatchCandidates ==
  { MatchResource(idc[1], idc[2], ty, Absent, nm, Absent) :
      idc \in IdentityChoices, ty \in {Absent, v_t1}, nm \in {Absent, v_n1} }
  \cup
  { MatchResource(Absent, Absent, Absent, rt, v_n1, rg) :
      rt \in {Absent, v_t1}, rg \in {v_r1, v_r2} }

SeqsUpTo(S, n) == UNION { [1..k -> S] : k \in 0..n }

NoSummary == [total |-> 0, missing |-> 0, modified |-> 0, match |-> 0]

\* the tier results a call of find_matching_iac_resource computes before it
\* returns: a tier after the first one that finds a candidate is not run
MatcherLocals(cloud_resource, pool) ==
  LET primary_match == _primary_match(cloud_resource, pool)
      secondary_match == _secondary_match(cloud_resource, pool)
      tertiary_match == _tertiary_match(cloud_resource, pool)
      ran == IF Found(pool, primary_match) THEN {"primary"}
             ELSE IF Found(pool, secondary_match) THEN {"primary", "secondary"}
             ELSE {"primary", "secondary", "tertiary"}
  IN  [ran |-> ran,
       primary_match |-> primary_match,
       secondary_match |-> IF "secondary" \in ran THEN secondary_match ELSE 0,
       tertiary_match |-> IF "tertiary" \in ran THEN tertiary_match ELSE 0]
NoLocals == [ran |-> {}, primary_match |-> 0, secondary_match |-> 0,
             tertiary_match |-> 0]

InitMatch ==
  /\ \E c \in MatchClouds : cloud_resources = <<c>>
  /\ iac_resources \in SeqsUpTo(MatchCandidates, MaxPool)
  /\ pc = "call"
  /\ analysis_results = <<>>
  /\ summary = NoSummary
  /\ heap = <<>>
  /\ change_log = 0
  /\ matching_iac = 0
  /\ matcher_locals = NoLocals
  /\ returned = 0
  /\ NoCall

\* one call of ResourceMatcher.find_matching_iac_resource
FindMatch ==
  /\ pc = "call"
  /\ matching_iac' = find_matching_iac_resource(cloud_resources[1], iac_resources)
  /\ matcher_locals' = MatcherLocals(cloud_resources[1], iac_resources)
  /\ pc' = "returned"
  /\ UNCHANGED <<cloud_resources, iac_resources, analysis_results, summary,
                 heap, change_log, returned>>
  /\ UNCHANGED call_vars

NextMatch == FindMatch

SpecMatch == InitMatch /\ [][NextMatch]_vars

(***************************************************************************)
(* One call of DiffConverter.convert_diff_to_changelog on a new converter, *)
(* for pairs of resources that differ in identity fields, scalars, nested   *)
(* mappings, types, keys and list elements.                                 *)
(***************************************************************************)
v_i2 == Str(<<"i", "2">>)
s_tags == <<"t", "a", "g", "s">>
s_totalAmount == <<"t", "o", "t", "a", "l", "A", "m", "o", "u", "n", "t">>
s_size == <<"s", "i", "z", "e">>
s_security_groups == <<"s", "e", "c", "u", "r", "i", "t", "y", "_",
                       "g", "r", "o", "u", "p", "s">>
\* a key that is not an identity field but holds brackets
s_bracket_id == <<"[", "i", "d", "]">>

v_17kb == Str(<<"1", "7", "k", "b">>)
v_22kb == Str(<<"2", "2", "k", "b">>)
v_100 == Int(<<"1", "0", "0">>)
v_100GB == Str(<<"1", "0", "0", "G", "B">>)
v_443 == Int(<<"4", "4", "3">>)
v_007 == Str(<<"0", "0", "7">>)
v_1_50 == Str(<<"1", ".", "5", "0">>)
v_7 == Str(<<"7">>)
v_x == Str(<<"x">>)
v_sg == Str(<<"s", "g">>)

Tags(amount) == Dict(<< <<s_totalAmount, amount>> >>)

DiffResource(id, bracket_id, tags, size, security_groups) ==
  Dict(<< <<s_id, id>>, <<s_bracket_id, bracket_id>>, <<s_tags, tags>>,
          <<s_size, size>>, <<s_security_groups, security_groups>> >>)

DiffClouds ==
  { DiffResource(id, b, tags, size, sgs) :
      id \in {Absent, v_i1},
      b \in {Absent, v_x},
      tags \in {Absent, Tags(v_17kb), Tags(v_007)},
      size \in {Absent, v_100},
      sgs \in {Absent, List(<<v_x>>), List(<<v_x, v_x>>), List(<<v_x, v_empty>>),
               List(<<v_x, v_sg, v_443>>), List(<<v_x, List(<<None>>)>>)} }

DiffIacs ==
  { DiffResource(id, b, tags, size, sgs) :
      id \in {Absent, v_i1, v_i2, v_100},
      b \in {Absent, v_sg},
      tags \in {Tags(v_17kb), Tags(v_22kb), Tags(v_1_50), Tags(v_7)},
      size \in {Absent, v_100, v_100GB, v_007},
      sgs \in {List(<<>>), List(<<v_x>>), List(<<v_x, v_sg>>)} }

InitDiff ==
  /\ \E c \in DiffClouds : cloud_resources = <<c>>
  /\ \E r \in DiffIacs : iac_resources = <<r>>
  /\ pc = "call"
  /\ analysis_results = <<>>
  /\ summary = NoSummary
  /\ heap = << <<>> >>      \* DiffConverter.__init__: self.change_log = []
  /\ change_log = 1
  /\ matching_iac = 0
  /\ matcher_locals = NoLocals
  /\ returned = 0
  /\ NoCall

ConvertDiffEnds(call) ==
  /\ heap' = call.heap
  /\ change_log' = call.change_log
  /\ returned' = call.returned
  /\ pc' = IF call.raised THEN "raised" ELSE "returned"
ConvertDiff ==
  /\ pc = "call"
  /\ ConvertDiffEnds(convert_diff_to_changelog(heap, change_log,
                       cloud_resources[1], iac_resources[1]))
  /\ UNCHANGED <<cloud_resources, iac_resources, analysis_results, summary,
                 matching_iac, matcher_locals>>
  /\ UNCHANGED call_vars

NextDiff == ConvertDiff

SpecDiff == InitDiff /\ [][NextDiff]_vars

(***************************************************************************)
(* CloudIacAnalyzer (analyzer.py).  An AnalysisItem refers to its cloud    *)
(* resource and its IaC resource by their positions in the inputs (the      *)
(* objects themselves in Python, 0 for None) and to its ChangeLog list by   *)
(* its reference into heap.                                                 *)
(***************************************************************************)
\* {k: v for k, v in resource.items() if k not in ['id', 'resource_id', 'arn']}
WithoutIdFields(resource) ==
  LET keep == SelectSeq([i \in 1..Len(resource.keys) |-> i],
                LAMBDA i : resource.keys[i] \notin {s_id, s_resource_id, s_arn})
  IN  Value("dict", <<>>, [k \in 1..Len(keep) |-> resource.keys[keep[k]]],
            [k \in 1..Len(keep) |-> resource.items[keep[k]]])

_are_resources_identical(cloud_resource, iac_resource) ==
  DiffIsEmpty(DeepDiff(WithoutIdFields(iac_resource),
                       WithoutIdFields(cloud_resource), {}))

AnalysisItem(cloud, iac, state, log) ==
  [CloudResourceItem |-> cloud, IacResourceItem |-> iac, State |-> state,
   ChangeLog |-> log]

\* _analyze_single_resource for the cloud resource at position i: the item (if
\* the call returns), the heap and the converter's attribute after the call
\* lines 63-68 and 72-77: an item with a new empty ChangeLog
ItemWithoutChanges(h, cl, i, found, state) ==
  [raised |-> FALSE, heap |-> NewList(h).heap, change_log |-> cl,
   item |-> AnalysisItem(i, found, state, NewList(h).ref)]
\* lines 80-89: the item holds the list the converter returned
ItemWithChanges(i, found, call) ==
  [raised |-> call.raised, heap |-> call.heap, change_log |-> call.change_log,
   item |-> AnalysisItem(i, found, "Modified", call.returned)]
AnalyzeWithMatch(h, cl, clouds, i, pool, found) ==
  IF ~Found(pool, found)
  THEN ItemWithoutChanges(h, cl, i, 0, "Missing")
  ELSE IF _are_resources_identical(clouds[i], pool[found])
  THEN ItemWithoutChanges(h, cl, i, found, "Match")
  ELSE ItemWithChanges(i, found,
         convert_diff_to_changelog(h, cl, clouds[i], pool[found]))
_analyze_single_resource(h, cl, clouds, i, pool) ==
  AnalyzeWithMatch(h, cl, clouds, i, pool,
                   find_matching_iac_resource(clouds[i], pool))

CountState(results, state) ==
  Cardinality({i \in 1..Len(results) : results[i].State = state})

_generate_summary(results) ==
  [total |-> Len(results),
   missing |-> CountState(results, "Missing"),
   modified |-> CountState(results, "Modified"),
   match |-> CountState(results, "Match")]

\* inputs of analyze: cloud resources and IaC resources that match by id or
\* by name and differ in nested values and in list elements
AnalyzeResource(id, name, tags, security_groups) ==
  Dict(<< <<s_id, id>>, <<s_name, name>>, <<s_tags, tags>>,
          <<s_security_groups, security_groups>> >>)

AnalyzeClouds ==
  { AnalyzeResource(v_i1, v_n1, Absent, sgs) :
      sgs \in {List(<<v_x>>), List(<<v_x, v_x>>), List(<<v_x, v_empty>>),
               List(<<v_x, v_443>>)} }
  \cup { AnalyzeResource(Absent, v_n1, Tags(v_17kb), List(<<v_x>>)),
         AnalyzeResource(Absent, Absent, Absent, List(<<v_x>>)) }

AnalyzeIacs ==
  { AnalyzeResource(v_i1, v_n1, Absent, List(<<v_x>>)),
    AnalyzeResource(Absent, v_n1, Tags(v_22kb), List(<<v_x>>)),
    AnalyzeResource(Absent, v_n1, Tags(v_17kb), List(<<v_x>>)),
    AnalyzeResource(v_i2, Absent, Absent, List(<<v_x>>)) }

Init ==
  /\ cloud_resources \in SeqsUpTo(AnalyzeClouds, MaxCloud)
  /\ iac_resources \in SeqsUpTo(AnalyzeIacs, MaxIac)
  /\ pc = "loop"
  /\ analysis_results = <<>>
  /\ summary = NoSummary
  /\ heap = << <<>> >>      \* DiffConverter.__init__: self.change_log = []
  /\ change_log = 1
  /\ matching_iac = 0
  /\ matcher_locals = NoLocals
  /\ returned = 0
  /\ NoCall

\* the resource object after _are_resources_identical has read it (lines
\* 106-109): the comprehension builds a new dict and the resource keeps its
\* keys; the matcher and the converter only read the resources
ReadInPlace(resource) == WithoutIdFields(resource)
ReadIntoCopy(resource) == resource
\* the two inputs after _analyze_single_resource on the cloud resource at
\* position i, whose match is the candidate found (0: none)
CloudsAfter(clouds, i, pool, found) ==
  IF Found(pool, found) THEN [clouds EXCEPT ![i] = ReadIntoCopy(@)] ELSE clouds
PoolAfter(pool, found) ==
  IF Found(pool, found) THEN [pool EXCEPT ![found] = ReadIntoCopy(@)] ELSE pool

\* one iteration of the loop of analyze (lines 35-37); an exception of the
\* converter leaves analyze
AnalyzeNextEnds(one) ==
  /\ heap' = one.heap
  /\ change_log' = one.change_log
  /\ analysis_results' = IF one.raised THEN analysis_results
                         ELSE Append(analysis_results, one.item)
  /\ pc' = IF one.raised THEN "raised" ELSE "loop"
AnalyzeNext ==
  /\ pc = "loop"
  /\ Len(analysis_results) < Len(cloud_resources)
  /\ matching_iac' =
       find_matching_iac_resource(cloud_resources[Len(analysis_results) + 1],
                                  iac_resources)
  /\ matcher_locals' =
       MatcherLocals(cloud_resources[Len(analysis_results) + 1], iac_resources)
  /\ AnalyzeNextEnds(_analyze_single_resource(heap, change_log, cloud_resources,
                       Len(analysis_results) + 1, iac_resources))
  /\ cloud_resources' =
       CloudsAfter(cloud_resources, Len(analysis_results) + 1, iac_resources,
                   find_matching_iac_resource(
                     cloud_resources[Len(analysis_results) + 1], iac_resources))
  /\ iac_resources' =
       PoolAfter(iac_resources,
                 find_matching_iac_resource(
                   cloud_resources[Len(analysis_results) + 1], iac_resources))
  /\ UNCHANGED <<summary, returned>>
  /\ UNCHANGED call_vars

\* the end of analyze (lines 39-45): the summary and the report
AnalyzeReturn ==
  /\ pc = "loop"
  /\ Len(analysis_results) = Len(cloud_resources)
  /\ summary' = _generate_summary(analysis_results)
  /\ pc' = "done"
  /\ UNCHANGED <<cloud_resources, iac_resources, analysis_results, heap,
                 change_log, matching_iac, matcher_locals, returned>>
  /\ UNCHANGED call_vars

Next == AnalyzeNext \/ AnalyzeReturn

Spec == Init /\ [][Next]_vars

(***************************************************************************)
(* What the matcher's tiers are said to look for, stated on the resources. *)
(***************************************************************************)
IdentityFields == {s_id, s_resource_id, s_arn}
\* a value that is there and is neither null nor empty
NonEmpty(r, k) == Has(r, k) /\ Item(r, k) # None /\ Item(r, k) # v_empty
SharesIdentity(c, r) ==
  \E f \in IdentityFields, g \in IdentityFields :
    NonEmpty(c, f) /\ Has(r, g) /\ Item(r, g) = Item(c, f)
TypeOf(r) == IF NonEmpty(r, s_type) THEN Item(r, s_type)
             ELSE IF Has(r, s_resourceType) THEN Item(r, s_resourceType)
             ELSE None
HasTypeAndName(c) ==
  (NonEmpty(c, s_type) \/ NonEmpty(c, s_resourceType)) /\ NonEmpty(c, s_name)
SharesTypeName(c, r) ==
  HasTypeAndName(c) /\ TypeOf(r) = TypeOf(c) /\ Has(r, s_name)
    /\ Item(r, s_name) = Item(c, s_name)
SharesName(c, r) ==
  NonEmpty(c, s_name) /\ Has(r, s_name) /\ Item(r, s_name) = Item(c, s_name)
SharesNameRegion(c, r) ==
  SharesName(c, r) /\ NonEmpty(c, s_region) /\ Has(r, s_region)
    /\ Item(r, s_region) = Item(c, s_region)

\* the candidates of the pool a tier looks for, by tier number
TierHits(c, pool, t) ==
  {i \in 1..Len(pool) :
     CASE t = 1 -> SharesIdentity(c, pool[i])
       [] t = 2 -> SharesTypeName(c, pool[i])
       [] t = 3 -> SharesNameRegion(c, pool[i])
       [] OTHER -> SharesName(c, pool[i])}
Lowest(S) == CHOOSE i \in S : \A j \in S : i <= j

\* C4: tier precedence whatever the candidate order: a candidate sharing an
\* identity value wins over a different candidate sharing (type, name), and
\* without any identity candidate a (type, name) candidate wins over
\* candidates that share only the name or name and region
C4_TierPrecedence ==
  pc = "returned" =>
    LET c == cloud_resources[1]
        ids == TierHits(c, iac_resources, 1)
        tns == TierHits(c, iac_resources, 2)
    IN  /\ (\E i \in ids, j \in tns : i # j) => matching_iac \in ids
        /\ (ids = {} /\ tns # {}) => matching_iac \in tns
\* a (type, name) candidate comes first, the identity candidate second, and
\* the identity candidate is returned
C4_Witness ==
  /\ pc = "returned"
  /\ Len(iac_resources) = 2
  /\ SharesTypeName(cloud_resources[1], iac_resources[1])
  /\ ~SharesIdentity(cloud_resources[1], iac_resources[1])
  /\ SharesIdentity(cloud_resources[1], iac_resources[2])
  /\ matching_iac = 2

\* C5: a returned candidate is the lowest-index element of the pool that
\* satisfies the predicate of the tier that produced the match (the first
\* tier some candidate satisfies); the result is an index of the pool or None
C5_LowestIndexOfTier ==
  pc = "returned" =>
    LET c == cloud_resources[1]
    IN  /\ matching_iac \in 0..Len(iac_resources)
        /\ matching_iac # 0 =>
              \E t \in 1..4 :
                /\ TierHits(c, iac_resources, t) # {}
                /\ matching_iac = Lowest(TierHits(c, iac_resources, t))
                /\ \A u \in 1..(t - 1) : TierHits(c, iac_resources, u) = {}
\* two candidates satisfy the name-only tier and the first one is returned
C5_Witness ==
  /\ pc = "returned"
  /\ matching_iac = 1
  /\ TierHits(cloud_resources[1], iac_resources, 1) = {}
  /\ TierHits(cloud_resources[1], iac_resources, 2) = {}
  /\ TierHits(cloud_resources[1], iac_resources, 3) = {}
  /\ TierHits(cloud_resources[1], iac_resources, 4) = {1, 2}

\* C6: the identity tier returns the first candidate one of whose id,
\* resource_id, arn holds a non-empty identity value of the cloud resource,
\* also under another field name; null and empty values never match
C6_IdentityTier ==
  pc = "returned" =>
    LET ids == TierHits(cloud_resources[1], iac_resources, 1)
    IN  /\ ids = {} => matcher_locals.primary_match = 0
        /\ ids # {} => matcher_locals.primary_match = Lowest(ids)
                        /\ matching_iac = Lowest(ids)
\* the candidate's arn holds the cloud resource's id; an earlier candidate
\* with a null or empty id is passed over
C6_Witness ==
  /\ pc = "returned"
  /\ Len(iac_resources) = 2
  /\ Has(cloud_resources[1], s_id) /\ ~Has(cloud_resources[1], s_arn)
  /\ Has(iac_resources[1], s_id) /\ ~NonEmpty(iac_resources[1], s_id)
  /\ ~Has(iac_resources[2], s_id)
  /\ Has(iac_resources[2], s_arn)
  /\ Item(iac_resources[2], s_arn) = Item(cloud_resources[1], s_id)
  /\ matcher_locals.primary_match = 2
  /\ matching_iac = 2

\* C7: when the identity and type+name tiers yield nothing, the third tier
\* returns the first candidate with equal name and region if the cloud
\* resource has both and such a candidate exists, else the first candidate
\* with equal name, and None if the cloud resource has no name
C7_NameRegionTier ==
  (pc = "returned" /\ "tertiary" \in matcher_locals.ran) =>
    LET c == cloud_resources[1]
        nrs == TierHits(c, iac_resources, 3)
        ns == TierHits(c, iac_resources, 4)
        expected == IF ~NonEmpty(c, s_name) THEN 0
                    ELSE IF nrs # {} THEN Lowest(nrs)
                    ELSE IF ns # {} THEN Lowest(ns)
                    ELSE 0
    IN  matcher_locals.tertiary_match = expected /\ matching_iac = expected
\* the first candidate has the name with another region, the second has name
\* and region, and the second is returned
C7_Witness ==
  /\ pc = "returned"
  /\ "tertiary" \in matcher_locals.ran
  /\ Len(iac_resources) = 2
  /\ SharesName(cloud_resources[1], iac_resources[1])
  /\ Has(iac_resources[1], s_region)
  /\ ~SharesNameRegion(cloud_resources[1], iac_resources[1])
  /\ SharesNameRegion(cloud_resources[1], iac_resources[2])
  /\ matching_iac = 2

(***************************************************************************)
(* The report of analyze.                                                  *)
(***************************************************************************)
States == {"Match", "Modified", "Missing"}
\* the entries of an item's ChangeLog
ChangeLogOf(item) == heap[item.ChangeLog]
\* the list a new converter returns for one pair
FreshChangeLog(cloud, iac) ==
  convert_diff_to_changelog(<< <<>> >>, 1, cloud, iac)

\* C1: analyze returns, for every input, a report with one item per cloud
\* resource, each in exactly one of the three states, and a summary with
\* total = |C| and match + modified + missing = total
C1_ReportCoversEveryResource ==
  /\ pc # "raised"
  /\ pc = "done" =>
       /\ Len(analysis_results) = Len(cloud_resources)
       /\ \A i \in 1..Len(analysis_results) : analysis_results[i].State \in States
       /\ summary.total = Len(cloud_resources)
       /\ summary.match + summary.modified + summary.missing = summary.total

\* C2: every item with State = Modified has a non-empty ChangeLog
C2_ModifiedHasChanges ==
  \A i \in 1..Len(analysis_results) :
    analysis_results[i].State = "Modified" => ChangeLogOf(analysis_results[i]) # <<>>

\* structural equivalence ignoring the order of list elements: the same keys
\* with equivalent values, and lists that are permutations of each other (the
\* list elements of the model are scalars)
Occurrences(items, v) == Cardinality({i \in 1..Len(items) : items[i] = v})
IsPermutation(a, b) ==
  /\ Len(a) = Len(b)
  /\ \A i \in 1..Len(a) : Occurrences(a, a[i]) = Occurrences(b, a[i])
RECURSIVE EquivalentIgnoringOrder(_, _)
EquivalentIgnoringOrder(a, b) ==
  /\ a.kind = b.kind
  /\ CASE a.kind = "dict" ->
            /\ \A i \in 1..Len(a.keys) : Has(b, a.keys[i])
            /\ \A i \in 1..Len(b.keys) : Has(a, b.keys[i])
            /\ \A i \in 1..Len(a.keys) :
                 EquivalentIgnoringOrder(a.items[i], Item(b, a.keys[i]))
       [] a.kind = "list" -> IsPermutation(a.items, b.items)
       [] OTHER -> a = b

\* C3: a matched cloud resource is reported as Match with an empty ChangeLog
\* exactly when the two resources are equivalent without their top-level id,
\* resource_id and arn and ignoring list order, and as Modified with the
\* converter's output as ChangeLog otherwise
C3_MatchIffEquivalent ==
  \A i \in 1..Len(analysis_results) :
    LET item == analysis_results[i]
        cloud == cloud_resources[item.CloudResourceItem]
        iac == iac_resources[item.IacResourceItem]
    IN  item.IacResourceItem # 0 =>
          IF EquivalentIgnoringOrder(WithoutIdFields(cloud), WithoutIdFields(iac))
          THEN item.State = "Match" /\ ChangeLogOf(item) = <<>>
          ELSE /\ item.State = "Modified"
               /\ ChangeLogOf(item) =
                    FreshChangeLog(cloud, iac).heap[FreshChangeLog(cloud, iac).returned]

\* no candidate shares an identity value or the name with the cloud resource
NoOverlap(c, pool) ==
  \A j \in 1..Len(pool) :
    ~SharesIdentity(c, pool[j]) /\ ~SharesName(c, pool[j])

\* C8: for a cloud resource that shares no identity value and no name with
\* any candidate (the pool may be empty), the matcher returns None without
\* raising and the item is Missing with no IaC resource and an empty ChangeLog
C8_NoOverlapIsMissing ==
  /\ \A i \in 1..Len(analysis_results) :
       NoOverlap(cloud_resources[i], iac_resources) =>
         /\ analysis_results[i].State = "Missing"
         /\ analysis_results[i].IacResourceItem = 0
         /\ ChangeLogOf(analysis_results[i]) = <<>>
  /\ (pc = "loop" /\ analysis_results # <<>>
        /\ NoOverlap(cloud_resources[Len(analysis_results)], iac_resources))
       => matching_iac = 0
  /\ pc = "raised" =>
       ~NoOverlap(cloud_resources[Len(analysis_results) + 1], iac_resources)
\* a cloud resource with an id and a name, and a pool whose candidates have
\* another id and no name: reported Missing
C8_Witness ==
  /\ pc = "done"
  /\ iac_resources # <<>>
  /\ \E i \in 1..Len(analysis_results) :
       /\ NoOverlap(cloud_resources[i], iac_resources)
       /\ Has(cloud_resources[i], s_id) /\ Has(cloud_resources[i], s_name)
       /\ analysis_results[i].State = "Missing"
       /\ analysis_results[i].IacResourceItem = 0

\* C9: every item is the item of its own cloud resource and equals the item
\* analyze gives for that resource alone against the same pool, whatever was
\* processed before it; the pool is never reduced
C9_ItemsAreIndependent ==
  /\ \A i \in 1..Len(analysis_results) :
       LET item == analysis_results[i]
           alone == _analyze_single_resource(<< <<>> >>, 1,
                      <<cloud_resources[i]>>, 1, iac_resources)
       IN  /\ item.CloudResourceItem = i
           /\ ~alone.raised
           /\ item.State = alone.item.State
           /\ item.IacResourceItem = alone.item.IacResourceItem
           /\ ChangeLogOf(item) = alone.heap[alone.item.ChangeLog]
  /\ pc = "raised" =>
       _analyze_single_resource(<< <<>> >>, 1,
         <<cloud_resources[Len(analysis_results) + 1]>>, 1, iac_resources).raised
\* two cloud resources matched with the same IaC resource, each Modified with
\* its own changes, and an IaC resource that no item refers to
C9_Witness ==
  /\ pc = "done"
  /\ Len(analysis_results) = 2
  /\ Len(iac_resources) = 2
  /\ analysis_results[1].IacResourceItem = analysis_results[2].IacResourceItem
  /\ analysis_results[1].IacResourceItem # 0
  /\ analysis_results[1].State = "Modified"
  /\ analysis_results[2].State = "Modified"
  /\ ChangeLogOf(analysis_results[1]) # <<>>
  /\ ChangeLogOf(analysis_results[2]) # <<>>
  /\ ChangeLogOf(analysis_results[1]) # ChangeLogOf(analysis_results[2])

(***************************************************************************)
(* The list convert_diff_to_changelog returns.                             *)
(***************************************************************************)
\* equal apart from the top-level id, resource_id and arn
EqualApartFromIdentity(cloud, iac) == WithoutIdFields(cloud) = WithoutIdFields(iac)

\* C10: identity fields are excluded from the diff: the result is empty when
\* the resources are equal apart from their top-level id, resource_id and arn,
\* and no returned entry has KeyName id, resource_id or arn
C10_IdentityFieldsExcluded ==
  pc = "returned" =>
    /\ EqualApartFromIdentity(cloud_resources[1], iac_resources[1])
         => heap[returned] = <<>>
    /\ \A k \in 1..Len(heap[returned]) :
         heap[returned][k].KeyName \notin {s_id, s_resource_id, s_arn}

\* C11: convert_diff_to_changelog returns normally for every pair of
\* JSON-compatible resources, lists that differ by added or removed elements
\* of any kind included
C11_NeverRaises == pc # "raised"

\* the elements of list a that list b does not hold
ElementsOnlyIn(a, b) ==
  {a[i] : i \in 1..Len(a)} \ {b[j] : j \in 1..Len(b)}
\* both resources hold a security_groups list
BothHaveLists ==
  /\ Has(cloud_resources[1], s_security_groups)
  /\ Has(iac_resources[1], s_security_groups)
CloudList == Item(cloud_resources[1], s_security_groups).items
IacList == Item(iac_resources[1], s_security_groups).items
\* the returned entries for the list whose KeyName carries the marker and
\* whose values are cloud_value and iac_value
MarkedEntries(marker, cloud_value, iac_value) ==
  {k \in 1..Len(heap[returned]) :
     /\ StartsWith(heap[returned][k].KeyName, s_security_groups)
     /\ EndsWith(heap[returned][k].KeyName, marker)
     /\ heap[returned][k].CloudValue = cloud_value
     /\ heap[returned][k].IacValue = iac_value}

\* C12: each element only in the cloud list gives exactly one entry with the
\* [+] marker, the whole element as CloudValue and IacValue None; each element
\* only in the IaC list gives exactly one entry with the [-] marker, CloudValue
\* None and the whole element as IacValue
C12_OneEntryPerListElement ==
  (pc = "returned" /\ BothHaveLists) =>
    /\ \A e \in ElementsOnlyIn(CloudList, IacList) :
         Cardinality(MarkedEntries(<<"[", "+", "]">>, e, None)) = 1
    /\ \A e \in ElementsOnlyIn(IacList, CloudList) :
         Cardinality(MarkedEntries(<<"[", "-", "]">>, None, e)) = 1

(***************************************************************************)
(* Locations in a resource, for the statements about the entries of one    *)
(* call: a location is a sequence of segments, a mapping key (its           *)
(* characters) or a list position (its number).                             *)
(***************************************************************************)
KeySeg(k) == [key |-> k, index |-> 0, is_key |-> TRUE]
IndexSeg(n) == [key |-> <<>>, index |-> n, is_key |-> FALSE]

\* every location of value v, the value itself (<<>>) included
RECURSIVE Locations(_)
Locations(v) ==
  {<<>>} \cup
  (IF v.kind = "dict"
   THEN UNION { { <<KeySeg(v.keys[i])>> \o p : p \in Locations(v.items[i]) } :
                i \in 1..Len(v.keys) }
   ELSE IF v.kind = "list"
   THEN UNION { { <<IndexSeg(i - 1)>> \o p : p \in Locations(v.items[i]) } :
                i \in 1..Len(v.items) }
   ELSE {})

\* the value at location p of v (p is a location of v)
RECURSIVE At(_, _)
At(v, p) ==
  IF p = <<>> THEN v
  ELSE IF p[1].is_key THEN At(Item(v, p[1].key), Tail(p))
  ELSE At(v.items[p[1].index + 1], Tail(p))

IsScalar(v) == v.kind \notin {"dict", "list"}
ThroughKeysOnly(p) == \A i \in 1..Len(p) : p[i].is_key
\* at or below a top-level id, resource_id or arn
IsIdentityLocation(p) == p # <<>> /\ p[1].is_key /\ p[1].key \in IdentityFields

\* the dotted path of a location: the segment names joined by '.', with no
\* bracket or quote character left
RECURSIVE JoinSegments(_)
JoinSegments(p) ==
  IF p = <<>> THEN <<>>
  ELSE (IF p[1].is_key THEN p[1].key ELSE IndexText(p[1].index))
       \o (IF Len(p) > 1 THEN <<".">> ELSE <<>>) \o JoinSegments(Tail(p))
DottedPath(p) ==
  SelectSeq(JoinSegments(p), LAMBDA ch : ch \notin {"[", "]", "'", "\""})

\* the call has run: it returned or it raised
CallEnded == pc \in {"returned", "raised"}
\* the entries the call appended to self.change_log (the list it returns
\* unless it raises or finds no difference)
Emitted == heap[change_log]
EntriesNamed(key_name) ==
  {k \in 1..Len(Emitted) : Emitted[k].KeyName = key_name}
\* the locations both resources hold
SharedLocations == Locations(cloud_resources[1]) \cap Locations(iac_resources[1])
CloudAt(p) == At(cloud_resources[1], p)
IacAt(p) == At(iac_resources[1], p)

\* a leaf scalar that differs at location p with the same kind on both sides
ScalarDiffers(p) ==
  /\ IsScalar(CloudAt(p)) /\ IsScalar(IacAt(p))
  /\ CloudAt(p).kind = IacAt(p).kind
  /\ CloudAt(p) # IacAt(p)
OneValueChangeEntry(p) ==
  /\ Cardinality(EntriesNamed(DottedPath(p))) = 1
  /\ \A k \in EntriesNamed(DottedPath(p)) :
       Emitted[k] = Entry(DottedPath(p), normalize_value(CloudAt(p)),
                          normalize_value(IacAt(p)))

KeysOnlyIn(a, b) == {a.keys[i] : i \in 1..Len(a.keys)} \ {b.keys[j] : j \in 1..Len(b.keys)}
\* both resources hold a mapping at location p
MappingOnBothSides(p) == CloudAt(p).kind = "dict" /\ IacAt(p).kind = "dict"
Below(p, k) == p \o <<KeySeg(k)>>
OneEntry(p, cloud_value, iac_value) ==
  /\ Cardinality(EntriesNamed(DottedPath(p))) = 1
  /\ \A n \in EntriesNamed(DottedPath(p)) :
       Emitted[n] = Entry(DottedPath(p), cloud_value, iac_value)

\* C14 as stated: every key only in the cloud mapping gives exactly one entry
\* {dotted path, 'ADDED', None}, every key only in the IaC mapping exactly one
\* entry {dotted path, None, 'REMOVED'}
C14_EveryKeyChange ==
  CallEnded =>
    \A p \in SharedLocations :
      MappingOnBothSides(p) =>
        /\ \A k \in KeysOnlyIn(CloudAt(p), IacAt(p)) :
             OneEntry(Below(p, k), ADDED, None)
        /\ \A k \in KeysOnlyIn(IacAt(p), CloudAt(p)) :
             OneEntry(Below(p, k), None, REMOVED)
\* C14 amended: the same for every key of a mapping reached through mapping
\* keys only, other than the top-level id, resource_id and arn
C14_KeyChangeEntry ==
  CallEnded =>
    \A p \in SharedLocations :
      (MappingOnBothSides(p) /\ ThroughKeysOnly(p)) =>
        /\ \A k \in KeysOnlyIn(CloudAt(p), IacAt(p)) :
             ~IsIdentityLocation(Below(p, k)) => OneEntry(Below(p, k), ADDED, None)
        /\ \A k \in KeysOnlyIn(IacAt(p), CloudAt(p)) :
             ~IsIdentityLocation(Below(p, k)) => OneEntry(Below(p, k), None, REMOVED)
\* the cloud resource alone holds id and size (a number), the IaC resource
\* alone holds tags (a mapping): size is ADDED, tags is REMOVED, id is absent
C14_Witness ==
  /\ pc = "returned"
  /\ s_id \in KeysOnlyIn(cloud_resources[1], iac_resources[1])
  /\ s_size \in KeysOnlyIn(cloud_resources[1], iac_resources[1])
  /\ s_tags \in KeysOnlyIn(iac_resources[1], cloud_resources[1])
  /\ \E k \in 1..Len(heap[returned]) : heap[returned][k] = Entry(s_size, ADDED, None)
  /\ \E k \in 1..Len(heap[returned]) : heap[returned][k] = Entry(s_tags, None, REMOVED)
  /\ \A k \in 1..Len(heap[returned]) : heap[returned][k].KeyName # s_id

\* the same location holds values of different kinds
KindDiffers(p) == CloudAt(p).kind # IacAt(p).kind
\* '<kind name>: <value as text>' of the value as it is
KindAndText(v) == Str(TypeName(v) \o <<":", " ">> \o PyStr(v))

\* C15 as stated: a path that holds values of different kinds gives exactly
\* one entry whose CloudValue and IacValue are '<kind name>: <value as text>'
\* of the raw cloud and IaC values
C15_EveryTypeChange ==
  CallEnded =>
    \A p \in SharedLocations :
      KindDiffers(p) =>
        OneEntry(p, KindAndText(CloudAt(p)), KindAndText(IacAt(p)))
\* C15 amended: the same for every path reached through mapping keys only,
\* other than the top-level id, resource_id and arn
C15_TypeChangeEntry ==
  CallEnded =>
    \A p \in SharedLocations :
      (KindDiffers(p) /\ ThroughKeysOnly(p) /\ ~IsIdentityLocation(p)) =>
        OneEntry(p, KindAndText(CloudAt(p)), KindAndText(IacAt(p)))
\* cloud size 100 against IaC size '100GB' gives 'int: 100' and 'str: 100GB'
C15_Witness ==
  /\ pc = "returned"
  /\ Get(cloud_resources[1], s_size) = v_100
  /\ Get(iac_resources[1], s_size) = v_100GB
  /\ \E k \in 1..Len(heap[returned]) :
       heap[returned][k] =
         Entry(s_size, Str(<<"i", "n", "t", ":", " ", "1", "0", "0">>),
               Str(<<"s", "t", "r", ":", " ", "1", "0", "0", "G", "B">>))

\* C16: every entry convert_diff_to_changelog returns has a CloudValue or an
\* IacValue that is not null
C16_EntryHasAValue ==
  pc = "returned" =>
    \A k \in 1..Len(heap[returned]) :
      heap[returned][k].CloudValue # None \/ heap[returned][k].IacValue # None

(***************************************************************************)
(* One call of DiffConverter._convert_path_to_key_name alone, on the path   *)
(* text DeepDiff gives a location: root, then ['key'] or [index] for each   *)
(* segment.                                                                 *)
(***************************************************************************)
MaxDepth == 3   \* most segments of a path handed to _convert_path_to_key_name

s_a == <<"a">>
s_b == <<"b">>
\* a key that holds a '.', and a key made of a digit
s_a_dot_b == <<"a", ".", "b">>
s_zero == <<"0">>
PathSegments ==
  {KeySeg(s_a), KeySeg(s_b), KeySeg(s_a_dot_b), KeySeg(s_zero), IndexSeg(0),
   IndexSeg(1)}

RECURSIVE PathFrom(_, _)
PathFrom(prefix, location) ==
  IF location = <<>> THEN prefix
  ELSE PathFrom(IF location[1].is_key THEN KeyPath(prefix, location[1].key)
                ELSE IndexPath(prefix, location[1].index),
                Tail(location))
\* the path of a location
PathOf(location) == PathFrom(RootPath, location)

\* the analyzer, the matcher and the converter's change log are not involved
Idle ==
  /\ cloud_resources = <<>>
  /\ iac_resources = <<>>
  /\ analysis_results = <<>>
  /\ summary = NoSummary
  /\ heap = <<>>
  /\ change_log = 0
  /\ matching_iac = 0
  /\ matcher_locals = NoLocals
  /\ returned = 0
idle_vars == <<cloud_resources, iac_resources, analysis_results, summary, heap,
               change_log, matching_iac, matcher_locals, returned>>

\* a call on the path of a location of one to MaxDepth segments
InitPath ==
  /\ Idle
  /\ \E n \in 1..MaxDepth : \E location \in [1..n -> PathSegments] :
       args = [path |-> PathOf(location)]
  /\ pc = "call"
  /\ result = <<>>

ConvertPath ==
  /\ pc = "call"
  /\ result' = _convert_path_to_key_name(args.path)
  /\ pc' = "returned"
  /\ UNCHANGED args
  /\ UNCHANGED idle_vars

NextPath == ConvertPath

SpecPath == InitPath /\ [][NextPath]_vars

\* the locations of at most MaxDepth segments whose path is the argument
LocationsOfPath ==
  UNION { {location \in [1..n -> PathSegments] : PathOf(location) = args.path} :
          n \in 1..MaxDepth }

MaxText == 3   \* longest string handed to normalize_value

TextChars == {"0", "7", ".", "k", superscript_two}
Texts == UNION { [1..n -> TextChars] : n \in 0..MaxText }
NotStrings == { None, Int(<<"7">>), Value("float", <<"7", ".", "0">>, <<>>, <<>>),
                Value("bool", <<"T", "r", "u", "e">>, <<>>, <<>>),
                List(<<Str(<<"7">>)>>), Dict(<< <<s_a, Str(<<"7">>)>> >>) }

InitNormalize ==
  /\ Idle
  /\ \E v \in {Str(t) : t \in Texts} \cup NotStrings : args = [value |-> v]
  /\ pc = "call"
  /\ result = <<>>

\* result is the returned value; when int() raises, the call ends as raised
Normalize ==
  /\ pc = "call"
  /\ result' = normalize_value(args.value)
  /\ pc' = IF normalize_value(args.value) = ValueError THEN "raised"
           ELSE "returned"
  /\ UNCHANGED args
  /\ UNCHANGED idle_vars

NextNormalize == Normalize

SpecNormalize == InitNormalize /\ [][NextNormalize]_vars

\* the number a string of ASCII digits denotes
RECURSIVE NumberOf(_)
NumberOf(t) ==
  IF t = <<>> THEN 0
  ELSE 10 * NumberOf(SubSeq(t, 1, Len(t) - 1))
       + (CHOOSE d \in 0..9 : DigitChars[d + 1] = t[Len(t)])
AsciiDigits == {"0", "1", "2", "3", "4", "5", "6", "7", "8", "9"}
AllAsciiDigits(t) == t # <<>> /\ \A i \in 1..Len(t) : t[i] \in AsciiDigits
\* digits, one '.', digits, with at least one digit
LooksLikeFloat(t) ==
  /\ \E i \in 1..Len(t) : t[i] \in AsciiDigits
  /\ \E d \in 1..Len(t) :
       /\ t[d] = "."
       /\ \A i \in 1..Len(t) : i # d => t[i] \in AsciiDigits

\* C18: normalize_value never raises; a string of ASCII digits yields the
\* equal integer, another string that parses as a floating-point number
\* yields a number, any other string and any value that is not a string is
\* returned unchanged
C18_NormalizeNeverRaises ==
  /\ pc # "raised"
  /\ pc = "returned" =>
       IF args.value.kind # "str" THEN result = args.value
       ELSE IF AllAsciiDigits(args.value.text)
       THEN result.kind = "int" /\ NumberOf(result.text) = NumberOf(args.value.text)
       ELSE IF LooksLikeFloat(args.value.text) THEN result.kind = "float"
       ELSE result = args.value

\* C19: normalize_value is idempotent: applied to a value it returned, it
\* returns that value again
C19_NormalizeIdempotent ==
  pc = "returned" => normalize_value(result) = result
\* '007' is normalized to the integer 7
C19_Witness ==
  /\ pc = "returned"
  /\ args.value = Str(<<"0", "0", "7">>)
  /\ result = Int(<<"7">>)

(***************************************************************************)
(* DiffConverter.compare_arrays_with_id_matching (diff_converter.py lines   *)
(* 147-246).  The ids of the model are strings.                             *)
(***************************************************************************)
\* "id" in item: key membership for a dict, substring test for a str, element
\* membership for a list; any other value raises TypeError
IdTestRaises(item) == item.kind \notin {"dict", "str", "list"}
IdIn(item) ==
  CASE item.kind = "dict" -> Has(item, s_id)
    [] item.kind = "str" ->
         \E k \in 1..Len(item.text) :
           k < Len(item.text) /\ SubSeq(item.text, k, k + 1) = s_id
    [] item.kind = "list" -> InList(Str(s_id), item.items)
    [] OTHER -> FALSE
\* map[item["id"]] = item raises TypeError when item is not a dict (str and
\* list take integer indices) or when the id is not hashable
IdStoreRaises(item) ==
  IdIn(item) /\ (item.kind # "dict" \/ Item(item, s_id).kind \in {"list", "dict"})
\* lines 176-182: one of the two loops raises
BuildMapRaises(array) ==
  \E k \in 1..Len(array.items) :
    IdTestRaises(array.items[k]) \/ IdStoreRaises(array.items[k])
\* the keys of cloud_map / iac_map
MapKeys(array) ==
  {Item(array.items[k], s_id) :
     k \in {n \in 1..Len(array.items) : IdIn(array.items[n])}}
\* map.get(item_id): the last element stored under the id, or None
MapGet(array, item_id) ==
  IF item_id \in MapKeys(array)
  THEN array.items[LastIndex({k \in 1..Len(array.items) :
                                IdIn(array.items[k])
                                /\ Item(array.items[k], s_id) = item_id})]
  ELSE None

\* change.get(key, change) for a reported list element that is a dict
GetOrItself(change, key) == IF Has(change, key) THEN Item(change, key) ELSE change
s_new_value == <<"n", "e", "w", "_", "v", "a", "l", "u", "e">>
s_old_value == <<"o", "l", "d", "_", "v", "a", "l", "u", "e">>
\* lines 194-217 for the report types whose text view is a dict, in the order
\* DeepDiff's result holds them: type_changes, values_changed,
\* iterable_item_added, iterable_item_removed; dictionary_item_added and
\* dictionary_item_removed are not dicts and are skipped
ChangedEntries(prefix, changes_dict) ==
  [k \in 1..Len(changes_dict) |->
     Entry(prefix \o _convert_path_to_key_name(changes_dict[k].path),
           changes_dict[k].new_value, changes_dict[k].old_value)]
ElementEntries(prefix, changes_dict) ==
  [k \in 1..Len(changes_dict) |->
     IF changes_dict[k].item.kind = "dict"
     THEN Entry(prefix \o _convert_path_to_key_name(changes_dict[k].path),
                GetOrItself(changes_dict[k].item, s_new_value),
                GetOrItself(changes_dict[k].item, s_old_value))
     ELSE Entry(prefix \o _convert_path_to_key_name(changes_dict[k].path),
                changes_dict[k].item, changes_dict[k].item)]
ItemDiffEntries(prefix, item_diff) ==
  ChangedEntries(prefix, item_diff.type_changes)
    \o ChangedEntries(prefix, item_diff.values_changed)
    \o ElementEntries(prefix, item_diff.iterable_item_added)
    \o ElementEntries(prefix, item_diff.iterable_item_removed)

\* lines 187-235 for one id
IdEntries(cloud_item, iac_item, array_path, item_id) ==
  IF Truthy(cloud_item) /\ Truthy(iac_item)
  THEN ItemDiffEntries(array_path \o <<".">> \o PyStr(item_id) \o <<".">>,
                       DeepDiff(iac_item, cloud_item, {}))
  ELSE IF Truthy(cloud_item)
  THEN <<Entry(array_path \o <<".">> \o PyStr(item_id), ADDED, None)>>
  ELSE IF Truthy(iac_item)
  THEN <<Entry(array_path \o <<".">> \o PyStr(item_id), None, REMOVED)>>
  ELSE <<>>

\* lines 185-186: all_ids is a set and the loop visits it in an order the
\* code does not fix; order is the order of one run
all_ids(cloud_array, iac_array) == MapKeys(cloud_array) \cup MapKeys(iac_array)
Orders(S) ==
  {order \in [1..Cardinality(S) -> S] :
     \A i, j \in 1..Cardinality(S) : order[i] = order[j] => i = j}
RECURSIVE MatchedChanges(_, _, _, _, _)
MatchedChanges(cloud_array, iac_array, array_path, order, k) ==
  IF k > Len(order) THEN <<>>
  ELSE IdEntries(MapGet(cloud_array, order[k]), MapGet(iac_array, order[k]),
                 array_path, order[k])
       \o MatchedChanges(cloud_array, iac_array, array_path, order, k + 1)

\* lines 168-173
BothStartWithDict(cloud_array, iac_array) ==
  /\ Truthy(cloud_array) /\ cloud_array.items[1].kind = "dict"
  /\ Truthy(iac_array) /\ iac_array.items[1].kind = "dict"

\* the returned changes and whether the call raised
compare_arrays_with_id_matching(cloud_array, iac_array, array_path, order) ==
  IF BothStartWithDict(cloud_array, iac_array)
  THEN IF BuildMapRaises(cloud_array) \/ BuildMapRaises(iac_array)
       THEN [changes |-> <<>>, raised |-> TRUE]
       ELSE [changes |-> MatchedChanges(cloud_array, iac_array, array_path,
                                        order, 1),
             raised |-> FALSE]
  ELSE [changes |-> <<Entry(array_path, cloud_array, iac_array)>>,
        raised |-> FALSE]

(***************************************************************************)
(* One call of compare_arrays_with_id_matching alone.                       *)
(***************************************************************************)
MaxArray == 2   \* longest array handed to compare_arrays_with_id_matching

v_a == Str(s_a)
v_b == Str(s_b)
ArrayElements ==
  { Dict(<< <<s_id, v_a>> >>), Dict(<< <<s_id, v_a>>, <<s_name, v_n1>> >>),
    Dict(<< <<s_id, v_b>> >>), Dict(<< <<s_name, v_n1>> >>),
    Dict(<< <<s_id, List(<<v_a>>)>> >>), v_x, v_443 }
Arrays == {List(items) : items \in SeqsUpTo(ArrayElements, MaxArray)}

InitArrays ==
  /\ Idle
  /\ \E c \in Arrays : \E r \in Arrays :
       args = [cloud_array |-> c, iac_array |-> r, array_path |-> s_security_groups]
  /\ pc = "call"
  /\ result = <<>>

CompareArraysEnds(call) ==
  /\ result' = call.changes
  /\ pc' = IF call.raised THEN "raised" ELSE "returned"
CompareArrays ==
  /\ pc = "call"
  /\ \E order \in Orders(all_ids(args.cloud_array, args.iac_array)) :
       CompareArraysEnds(
         compare_arrays_with_id_matching(args.cloud_array, args.iac_array,
                                         args.array_path, order))
  /\ UNCHANGED args
  /\ UNCHANGED idle_vars

NextArrays == CompareArrays

SpecArrays == InitArrays /\ [][NextArrays]_vars

\* an array is empty or holds, at any position, an element that is no mapping
NotAllMappings(array) ==
  array.items = <<>> \/ \E k \in 1..Len(array.items) : array.items[k].kind # "dict"

\* C20: when either array is empty or holds an element that is not a mapping,
\* at any position, the call does not raise and returns exactly the one entry
\* {array_path, cloud_array, iac_array}
C20_WholeArrayEntry ==
  (pc \in {"returned", "raised"}
     /\ (NotAllMappings(args.cloud_array) \/ NotAllMappings(args.iac_array)))
    => /\ pc = "returned"
       /\ result = <<Entry(args.array_path, args.cloud_array, args.iac_array)>>

\* the paths of every change a structural diff reports
DiffPaths(item_diff) ==
  {item_diff.values_changed[k].path : k \in 1..Len(item_diff.values_changed)}
    \cup {item_diff.dictionary_item_added[k] :
            k \in 1..Len(item_diff.dictionary_item_added)}
    \cup {item_diff.dictionary_item_removed[k] :
            k \in 1..Len(item_diff.dictionary_item_removed)}
    \cup {item_diff.type_changes[k].path : k \in 1..Len(item_diff.type_changes)}
    \cup {item_diff.iterable_item_added[k].path :
            k \in 1..Len(item_diff.iterable_item_added)}
    \cup {item_diff.iterable_item_removed[k].path :
            k \in 1..Len(item_diff.iterable_item_removed)}
KeyNamesOf(changes) == {changes[k].KeyName : k \in 1..Len(changes)}
AllMappings(array) == ~NotAllMappings(array)
IdsInBoth == MapKeys(args.cloud_array) \cap MapKeys(args.iac_array)

\* C21: after a call on two non-empty arrays of mappings, for each id present
\* in both arrays every change in the structural diff of the two elements has
\* an entry whose KeyName is array_path.<id>.<inner dotted path>
C21_EveryElementChange ==
  (pc = "returned" /\ AllMappings(args.cloud_array) /\ AllMappings(args.iac_array))
    => \A item_id \in IdsInBoth :
         \A p \in DiffPaths(DeepDiff(MapGet(args.iac_array, item_id),
                                     MapGet(args.cloud_array, item_id), {})) :
           (args.array_path \o <<".">> \o PyStr(item_id) \o <<".">>
              \o _convert_path_to_key_name(p)) \in KeyNamesOf(result)

\* the number of entries of changes equal to entry
CountOf(changes, entry) ==
  Cardinality({k \in 1..Len(changes) : changes[k] = entry})
\* the entries whose KeyName is array_path.<id> or lies below it
EntriesAbout(changes, array_path, item_id) ==
  {k \in 1..Len(changes) :
     \/ changes[k].KeyName = array_path \o <<".">> \o PyStr(item_id)
     \/ StartsWith(changes[k].KeyName,
                   array_path \o <<".">> \o PyStr(item_id) \o <<".">>)}
\* the ids of the elements that carry one
IdsOf(array) ==
  {Item(array.items[k], s_id) :
     k \in {n \in 1..Len(array.items) : Has(array.items[n], s_id)}}

\* C22: a call on two non-empty arrays of mappings returns, for each id only
\* in the cloud array, exactly one entry {array_path.<id>, 'ADDED', None}, for
\* each id only in the IaC array exactly one entry {array_path.<id>, None,
\* 'REMOVED'}, and no other entry than those about the ids of both arrays
C22_AddedRemovedIds ==
  (pc \in {"returned", "raised"}
     /\ AllMappings(args.cloud_array) /\ AllMappings(args.iac_array))
    => /\ pc = "returned"
       /\ \A item_id \in IdsOf(args.cloud_array) \ IdsOf(args.iac_array) :
            /\ CountOf(result, Entry(args.array_path \o <<".">> \o PyStr(item_id),
                                     ADDED, None)) = 1
            /\ Cardinality(EntriesAbout(result, args.array_path, item_id)) = 1
       /\ \A item_id \in IdsOf(args.iac_array) \ IdsOf(args.cloud_array) :
            /\ CountOf(result, Entry(args.array_path \o <<".">> \o PyStr(item_id),
                                     None, REMOVED)) = 1
            /\ Cardinality(EntriesAbout(result, args.array_path, item_id)) = 1
       /\ \A k \in 1..Len(result) :
            \E item_id \in IdsOf(args.cloud_array) \cup IdsOf(args.iac_array) :
              k \in EntriesAbout(result, args.array_path, item_id)

(***************************************************************************)
(* ResourceMatcher.get_match_confidence (matcher.py lines 116-159), called  *)
(* alone.  The score is held in tenths: the code's float sums are 0.0, 0.2, *)
(* 0.4, 0.4 + 0.2, 0.4 + 0.4 and 0.4 + 0.4 + 0.2, the last of which is      *)
(* exactly 1.0, and min(score, 1.0) never changes any of them.              *)
(***************************************************************************)
iac_id_fields == <<s_id, s_resource_id, s_arn>>

\* lines 134-139 with one loop over the fields, the same field on both sides
IdentityHit_same_field(cloud_resource, iac_resource) ==
  \E f \in 1..Len(cloud_id_fields) :
    /\ Truthy(Get(cloud_resource, cloud_id_fields[f]))
    /\ Truthy(Get(iac_resource, cloud_id_fields[f]))
    /\ PyEq(Get(cloud_resource, cloud_id_fields[f]),
            Get(iac_resource, cloud_id_fields[f]))
\* lines 134-139: some pair of identity fields is truthy on both sides and equal
IdentityHit(cloud_resource, iac_resource) ==
  \E cf \in 1..Len(cloud_id_fields) : \E f \in 1..Len(iac_id_fields) :
    /\ Truthy(Get(cloud_resource, cloud_id_fields[cf]))
    /\ Truthy(Get(iac_resource, iac_id_fields[f]))
    /\ PyEq(Get(cloud_resource, cloud_id_fields[cf]),
            Get(iac_resource, iac_id_fields[f]))

\* lines 142-143
TypeOrResourceType(resource) ==
  OrElse(Get(resource, s_type), Get(resource, s_resourceType))

\* "if a == b: score += tenths"
ScoreIf(a, b, tenths) == IF PyEq(a, b) THEN tenths ELSE 0
Min(a, b) == IF a <= b THEN a ELSE b

\* lines 141-159
AccumulatedScore(cloud_resource, iac_resource) ==
  ScoreIf(TypeOrResourceType(cloud_resource), TypeOrResourceType(iac_resource), 4)
    + ScoreIf(Get(cloud_resource, s_name), Get(iac_resource, s_name), 4)
    + ScoreIf(Get(cloud_resource, s_region), Get(iac_resource, s_region), 2)

get_match_confidence(cloud_resource, iac_resource) ==
  IF IdentityHit(cloud_resource, iac_resource) THEN 10
  ELSE Min(AccumulatedScore(cloud_resource, iac_resource), 10)

InitConfidence ==
  /\ Idle
  /\ \E c \in MatchClouds : \E r \in MatchCandidates :
       args = [cloud_resource |-> c, iac_resource |-> r]
  /\ pc = "call"
  /\ result = <<>>

MatchConfidence ==
  /\ pc = "call"
  /\ result' = get_match_confidence(args.cloud_resource, args.iac_resource)
  /\ pc' = "returned"
  /\ UNCHANGED args
  /\ UNCHANGED idle_vars

NextConfidence == MatchConfidence

SpecConfidence == InitConfidence /\ [][NextConfidence]_vars

\* the field is present and non-null on both resources and the values are equal
EqualOnBoth(cloud_resource, iac_resource, field) ==
  /\ Has(cloud_resource, field) /\ Item(cloud_resource, field).kind # "NoneType"
  /\ Has(iac_resource, field) /\ Item(iac_resource, field).kind # "NoneType"
  /\ Item(cloud_resource, field) = Item(iac_resource, field)
\* the type of a resource is its type field or, failing that, resourceType
HasType(resource) == NonEmpty(resource, s_type) \/ NonEmpty(resource, s_resourceType)
TypesEqualOnBoth(cloud_resource, iac_resource) ==
  /\ HasType(cloud_resource) /\ HasType(iac_resource)
  /\ TypeOf(cloud_resource) = TypeOf(iac_resource)
\* tenths a field adds when it is present, non-null and equal on both sides
ExpectedScore(cloud_resource, iac_resource) ==
  (IF TypesEqualOnBoth(cloud_resource, iac_resource) THEN 4 ELSE 0)
    + (IF EqualOnBoth(cloud_resource, iac_resource, s_name) THEN 4 ELSE 0)
    + (IF EqualOnBoth(cloud_resource, iac_resource, s_region) THEN 2 ELSE 0)

\* C23: when the two resources share no identity value, the confidence is 0.4
\* for type plus 0.4 for name plus 0.2 for region, each counted only if the
\* field is present and non-null on both resources with equal values
C23_ScoreOnlyPresentFields ==
  (pc = "returned" /\ ~SharesIdentity(args.cloud_resource, args.iac_resource))
    => result = ExpectedScore(args.cloud_resource, args.iac_resource)

\* C24: the confidence is exactly 1.0 whenever a non-empty identity value of
\* the cloud resource equals one of the IaC resource, and always lies in [0, 1]
C24_IdentityGivesOne ==
  pc = "returned"
    => /\ SharesIdentity(args.cloud_resource, args.iac_resource) => result = 10
       /\ result \in 0..10
\* the id of the cloud resource is the arn of an IaC resource that has no type
\* and the call has returned
C24_Witness ==
  /\ pc = "returned"
  /\ Get(args.cloud_resource, s_id) = v_i1
  /\ Get(args.iac_resource, s_arn) = v_i1
  /\ ~Has(args.iac_resource, s_type) /\ Has(args.cloud_resource, s_type)
  /\ result = 10

(***************************************************************************)
(* The analyze command of the CLI (cli.py lines 20-114) with the storage    *)
(* calls it makes (s3_uploader.py).  args holds the options and what the    *)
(* run finds in the file system; result holds the messages echoed so far    *)
(* and, once the process has ended, its exit status.  The outcomes of the   *)
(* S3 client's calls are chosen by the environment.                         *)
(***************************************************************************)
\* a resource file: readable JSON, not there, or not JSON
FileStates == {"json", "missing", "malformed"}
\* what analyze_from_files does once both files are loaded: returns the
\* report, or raises (analyze raising on the resources, the report not being
\* writable to --output)
AnalysisOutcomes == {"report", "raises"}
\* head_bucket: succeeds, ClientError 404, another ClientError, or an error
\* that is no ClientError (no credentials, no connection)
HeadBucketOutcomes == {"exists", "404", "client_error", "other_error"}
CreateBucketOutcomes == {"created", "client_error"}
PutObjectOutcomes == {"stored", "client_error", "no_credentials", "other_error"}

msg_error == "Error"
msg_summary == "ANALYSIS SUMMARY"
msg_bucket_failed == "Failed to create/access S3 bucket"
msg_uploaded == "Report uploaded"
msg_upload_failed == "Failed to upload report to S3"
msg_saved == "Report saved"

Echo(message) == [echoed |-> result.echoed \o <<message>>]
\* the process ends with this status
Exit(status, echoed) == [exit_status |-> status, echoed |-> echoed]
\* lines 112-114: any exception is echoed and turned into click.Abort, on
\* which the command ends with status 1
Abort == Exit(1, result.echoed \o <<msg_error>>)

InitCli ==
  /\ Idle
  /\ \E cloud \in FileStates, iac \in FileStates, analysis \in AnalysisOutcomes,
        output \in BOOLEAN, bucket_name \in BOOLEAN :
       args = [cloud |-> cloud, iac |-> iac, analysis |-> analysis,
               output |-> output, bucket_name |-> bucket_name]
  /\ pc = "options"
  /\ result = [echoed |-> <<>>]

\* lines 21-24: click.Path(exists=True) rejects a path that does not exist
\* before the command body runs, and the command ends with status 2
ParseOptions ==
  /\ pc = "options"
  /\ IF args.cloud = "missing" \/ args.iac = "missing"
     THEN pc' = "exited" /\ result' = Exit(2, result.echoed)
     ELSE pc' = "analyze" /\ UNCHANGED result
  /\ UNCHANGED args
  /\ UNCHANGED idle_vars

\* lines 57-70: load_json_file raises on a file that is not JSON,
\* analyze_from_files may raise, otherwise the summary is echoed
AnalyzeFromFiles ==
  /\ pc = "analyze"
  /\ IF args.cloud = "malformed" \/ args.iac = "malformed"
        \/ args.analysis = "raises"
     THEN pc' = "exited" /\ result' = Abort
     ELSE /\ pc' = IF args.bucket_name THEN "bucket" ELSE "save"
          /\ result' = Echo(msg_summary)
  /\ UNCHANGED args
  /\ UNCHANGED idle_vars

\* s3_uploader.py lines 87-123: TRUE, FALSE, or "raises" for an error that is
\* no ClientError
create_bucket_if_not_exists(head_bucket, create_bucket) ==
  CASE head_bucket = "exists" -> "True"
    [] head_bucket = "404" ->
         IF create_bucket = "created" THEN "True" ELSE "False"
    [] head_bucket = "client_error" -> "False"
    [] OTHER -> "raises"

\* lines 83-92
CreateBucketEnds(created) ==
  CASE created = "True" -> pc' = "upload" /\ UNCHANGED result
    [] created = "False" ->
         pc' = "exited" /\ result' = Exit(0, result.echoed \o <<msg_bucket_failed>>)
    [] OTHER -> pc' = "exited" /\ result' = Abort
CreateBucket ==
  /\ pc = "bucket"
  /\ \E head_bucket \in HeadBucketOutcomes, create_bucket \in CreateBucketOutcomes :
       CreateBucketEnds(create_bucket_if_not_exists(head_bucket, create_bucket))
  /\ UNCHANGED args
  /\ UNCHANGED idle_vars

\* s3_uploader.py lines 51-85: every exception of put_object gives False
upload_report(put_object) == put_object = "stored"

\* lines 94-103
UploadReport ==
  /\ pc = "upload"
  /\ \E put_object \in PutObjectOutcomes :
       result' = IF upload_report(put_object) THEN Echo(msg_uploaded)
                 ELSE Echo(msg_upload_failed)
  /\ pc' = "save"
  /\ UNCHANGED args
  /\ UNCHANGED idle_vars

\* lines 105-110: the command body returns and the process ends with status 0
Finish ==
  /\ pc = "save"
  /\ result' = Exit(0, IF args.output THEN result.echoed \o <<msg_saved>>
                       ELSE result.echoed)
  /\ pc' = "exited"
  /\ UNCHANGED args
  /\ UNCHANGED idle_vars

NextCli == ParseOptions \/ AnalyzeFromFiles \/ CreateBucket \/ UploadReport \/ Finish

SpecCli == InitCli /\ [][NextCli]_vars

Echoed(message) == \E k \in 1..Len(result.echoed) : result.echoed[k] = message
\* a step of the run failed: a file was not found or was not JSON, the
\* analysis raised, the bucket could not be created or accessed, or the
\* upload failed
RunFailed ==
  \/ args.cloud # "json" \/ args.iac # "json"
  \/ Echoed(msg_error)
  \/ Echoed(msg_bucket_failed)
  \/ Echoed(msg_upload_failed)

\* C25: the analyze command ends with a non-zero exit status on any failure
\* of the run and with status 0 only when every requested step succeeded
C25_NonZeroOnFailure ==
  pc = "exited" => (result.exit_status = 0 <=> ~RunFailed)

(***************************************************************************)
(* The category of an entry, read from the entry itself: the list handlers  *)
(* mark the KeyName with [+] or [-], the key handlers store ADDED or        *)
(* REMOVED next to a null, the type handler stores "<type name>: <value>"   *)
(* on both sides; anything else is a value change.                          *)
(***************************************************************************)
TypePrefixes ==
  {TypeName(v) \o <<":", " ">> : v \in {v_x, v_100, None, List(<<>>), Dict(<<>>)}}
IsTyped(v) ==
  v.kind = "str" /\ \E prefix \in TypePrefixes : StartsWith(v.text, prefix)
CategoryRank(entry) ==
  IF EndsWith(entry.KeyName, <<"[", "+", "]">>) THEN 5
  ELSE IF EndsWith(entry.KeyName, <<"[", "-", "]">>) THEN 6
  ELSE IF entry.CloudValue = ADDED /\ entry.IacValue = None THEN 2
  ELSE IF entry.CloudValue = None /\ entry.IacValue = REMOVED THEN 3
  ELSE IF IsTyped(entry.CloudValue) /\ IsTyped(entry.IacValue) THEN 4
  ELSE 1
RanksOf(changes) == {CategoryRank(changes[k]) : k \in 1..Len(changes)}

\* C26: in the list convert_diff_to_changelog returns, value changes come
\* first, then key additions, key removals, type changes, list element
\* additions and list element removals: no entry of a later category precedes
\* an entry of an earlier one
C26_CategoriesInOrder ==
  pc = "returned" =>
    \A j, k \in 1..Len(heap[returned]) :
      j < k => CategoryRank(heap[returned][j]) <= CategoryRank(heap[returned][k])
\* a returned list with a value change, a key addition or removal, a type
\* change and a list element addition or removal
C26_Witness ==
  /\ pc = "returned"
  /\ 1 \in RanksOf(heap[returned])
  /\ {2, 3} \cap RanksOf(heap[returned]) # {}
  /\ 4 \in RanksOf(heap[returned])
  /\ {5, 6} \cap RanksOf(heap[returned]) # {}

\* C27: no step of analyze, with the calls of find_matching_iac_resource
\* and convert_diff_to_changelog it makes, modifies its inputs: the cloud
\* resource list and the IaC pool keep their elements, order and contents
C27_InputsUnmodified ==
  [][cloud_resources' = cloud_resources /\ iac_resources' = iac_resources]_vars
\* analyze has processed all its cloud resources, one of them through the
\* matcher, the comparison and the converter
C27_Witness ==
  /\ pc = "done"
  /\ \E k \in 1..Len(analysis_results) :
       /\ analysis_results[k].State = "Modified"
       /\ Has(cloud_resources[k], s_id)
       /\ Has(iac_resources[analysis_results[k].IacResourceItem], s_id)

\* the entries convert_diff_to_changelog computes for one pair of resources
EntriesFor(cloud_resource, iac_resource) ==
  ProcessDiff(DeepDiff(iac_resource, cloud_resource, exclude_paths)).entries

\* C28: the ChangeLog of every Modified item of analyze holds exactly the
\* entries computed for its own cloud/IaC pair, whatever calls the shared
\* converter served afterwards, and no two items hold the same list object
C28_ChangeLogsKept ==
  \A k \in 1..Len(analysis_results) :
    analysis_results[k].State = "Modified" =>
      /\ heap[analysis_results[k].ChangeLog] =
           EntriesFor(cloud_resources[analysis_results[k].CloudResourceItem],
                      iac_resources[analysis_results[k].IacResourceItem])
      /\ \A j \in 1..Len(analysis_results) :
           j # k => analysis_results[j].ChangeLog # analysis_results[k].ChangeLog
\* the first item is Modified with entries of its own and the shared converter
\* has since served a second Modified item with other entries
C28_Witness ==
  /\ Len(analysis_results) = 2
  /\ analysis_results[1].State = "Modified"
  /\ analysis_results[2].State = "Modified"
  /\ heap[analysis_results[1].ChangeLog] # <<>>
  /\ heap[analysis_results[2].ChangeLog] # <<>>
  /\ \A k \in 1..Len(heap[analysis_results[2].ChangeLog]) :
       \A j \in 1..Len(heap[analysis_results[1].ChangeLog]) :
         heap[analysis_results[2].ChangeLog][k] # heap[analysis_results[1].ChangeLog][j]

\* every location of at most MaxDepth segments
AllLocations == UNION { [1..n -> PathSegments] : n \in 1..MaxDepth }
\* the first position at which two locations differ (0: one is the start of
\* the other)
FirstDifference(p, q) ==
  FirstIndex({k \in 1..Min(Len(p), Len(q)) : p[k] # q[k]})
\* two different locations that one resource can hold: where they part, both
\* go on by a key (the value there is a mapping) or both by an index (a list)
InOneResource(p, q) ==
  /\ p # q
  /\ FirstDifference(p, q) # 0 =>
       p[FirstDifference(p, q)].is_key = q[FirstDifference(p, q)].is_key

\* C29: _convert_path_to_key_name gives two different locations of one
\* resource two different KeyNames, whatever the keys are
C29_KeyNamesUnambiguous ==
  pc = "returned" =>
    \A p \in LocationsOfPath : \A q \in AllLocations :
      InOneResource(p, q) => _convert_path_to_key_name(PathOf(q)) # result

\* C30: every value-change entry convert_diff_to_changelog returns holds a
\* CloudValue and an IacValue that, as stored after normalization, differ
C30_ValueChangeDiffers ==
  pc = "returned" =>
    \A k \in 1..Len(heap[returned]) :
      CategoryRank(heap[returned][k]) = 1 =>
        heap[returned][k].CloudValue # heap[returned][k].IacValue

====
